---- MODULE Spec2Model ----
(***************************************************************************)
(* A model of src/game/shadow.c: the shadow workspace gCurrShadow, the     *)
(* flag set gShadowFlags, the attenuation and easing functions, and the    *)
(* builds create_shadow_below_xyz dispatches to.                           *)
(*                                                                         *)
(* Numbers.  An f32 of the code is an exact rational [n, d] (Q below) or,  *)
(* where the code's inputs keep it integral, an integer.  The inputs of    *)
(* the model are chosen so that every f32 product and quotient the code    *)
(* forms with them is exact in binary32 (distances that are multiples of   *)
(* 75, so that d/1200 is a multiple of 1/16), with one exception: the      *)
(* factor 1.0f - k/n of linearly_interpolate_solidity_negative is not      *)
(* exact, and is modelled with binary32 rounding (F32Quot, F32OneMinus,    *)
(* F32MulU8Trunc).                                                         *)
(***************************************************************************)
EXTENDS Integers, Sequences, FiniteSets, TLC

VARIABLES gCurrShadow, gShadowFlags, pc, call, ret, fnIn, fnOut

vars == <<gCurrShadow, gShadowFlags, pc, call, ret, fnIn, fnOut>>

(***************************************************************************)
(* Let(v, F) is F(v) with v evaluated once: a local of the code, computed  *)
(* once and then read.                                                     *)
(***************************************************************************)
Only(S) == CHOOSE y \in S : TRUE
Let(v, F(_)) == Only({F(b) : b \in {v}})

(***************************************************************************)
(* Exact rationals.                                                        *)
(***************************************************************************)
Abs(i) == IF i < 0 THEN -i ELSE i

RECURSIVE Gcd(_, _)
Gcd(a, b) == IF b = 0 THEN a ELSE Gcd(b, a % b)

\* The rational n/d in lowest terms with a positive denominator.
Q(n, d) ==
    LET sn == IF d < 0 THEN -n ELSE n
        sd == Abs(d)
        g  == Gcd(Abs(sn), sd)
    IN  [n |-> sn \div g, d |-> sd \div g]

QInt(i) == [n |-> i, d |-> 1]
QAdd(a, b) == Q(a.n * b.d + b.n * a.d, a.d * b.d)
QSub(a, b) == Q(a.n * b.d - b.n * a.d, a.d * b.d)
QMul(a, b) == Q(a.n * b.n, a.d * b.d)
QDiv(a, b) == Q(a.n * b.d, a.d * b.n)
QNeg(a) == [n |-> -a.n, d |-> a.d]
QLe(a, b) == a.n * b.d <= b.n * a.d
QLt(a, b) == a.n * b.d < b.n * a.d
QAbs(a) == [n |-> Abs(a.n), d |-> a.d]

\* C's conversion of a float to an integer type: truncation toward zero.
QTrunc(a) == IF a.n >= 0 THEN a.n \div a.d ELSE -((-a.n) \div a.d)

\* roundf: to the nearest integer, halfway cases away from zero.
roundf(a) ==
    IF a.n >= 0 THEN (2 * a.n + a.d) \div (2 * a.d)
                ELSE -((2 * (-a.n) + a.d) \div (2 * a.d))

(***************************************************************************)
(* binary32 arithmetic for the one inexact expression of the file.  A      *)
(* float is [m, e], the value m / 2^e, with m < 2^24.                      *)
(***************************************************************************)
RECURSIVE Pow2(_)
Pow2(k) == IF k = 0 THEN 1 ELSE 2 * Pow2(k - 1)

RECURSIVE BitLen(_)
BitLen(m) == IF m = 0 THEN 0 ELSE 1 + BitLen(m \div 2)

\* m / 2^k rounded to the nearest integer, ties to even.
RoundShift(m, k) ==
    LET p    == Pow2(k)
        q    == m \div p
        r    == m % p
    IN  IF 2 * r > p \/ (2 * r = p /\ q % 2 = 1) THEN q + 1 ELSE q

\* [m, e] with m brought down to 24 bits (round to nearest, ties to even).
F32Norm(m, e) ==
    IF BitLen(m) <= 24 THEN [m |-> m, e |-> e]
    ELSE LET k == BitLen(m) - 24
         IN  [m |-> RoundShift(m, k), e |-> e - k]

RECURSIVE QuotExp(_, _, _)
QuotExp(a, b, e) == IF a * Pow2(e) >= b * Pow2(23) THEN e ELSE QuotExp(a, b, e + 1)

\* (f32) a / b for integers 0 <= a, 0 < b < 128.
F32Quot(a, b) ==
    IF a = 0 THEN [m |-> 0, e |-> 0]
    ELSE LET e   == QuotExp(a, b, 0)
             num == a * Pow2(e)
             q   == num \div b
             r   == num % b
             m   == IF 2 * r > b \/ (2 * r = b /\ q % 2 = 1) THEN q + 1 ELSE q
         IN  [m |-> m, e |-> e]

\* 1.0f - f for a float 0 <= f <= 1.
F32OneMinus(f) == F32Norm(Pow2(f.e) - f.m, f.e)

\* (u8 -> s32) truncation of the f32 product (f32) i * f, for 0 <= i < 256 and
\* a float 0 <= f <= 1.  The 32-bit product i * f.m is kept in two limbs so
\* that no intermediate value leaves 31 bits.
F32MulU8Trunc(i, f) ==
    LET mh == f.m \div 256
        ml == f.m % 256
        A  == i * mh + ((i * ml) \div 256)
        B  == (i * ml) % 256
        k  == IF BitLen(A) > 16 THEN BitLen(A) - 16 ELSE 0
        kept == A * Pow2(8 - k) + (B \div Pow2(k))
        rem  == B % Pow2(k)
        M  == IF 2 * rem > Pow2(k) \/ (2 * rem = Pow2(k) /\ kept % 2 = 1)
              THEN kept + 1 ELSE kept
    IN  IF f.e >= k THEN M \div Pow2(f.e - k) ELSE M * Pow2(k - f.e)

(***************************************************************************)
(* Program constants.                                                      *)
(***************************************************************************)
\* "the water level is below -10,000"
FLOOR_LOWER_LIMIT_MISC == -10000

\* What find_floor returns with no floor, and what an empty cache holds.
FLOOR_LOWER_LIMIT == -11000

NULL == 0

\* A configuration switch of the build (#ifdef HD_SHADOWS): off.
HD_SHADOWS == FALSE

(***************************************************************************)
(* Surfaces.  A struct Surface * is an index into Surfaces, NULL is 0.     *)
(* A normal is kept in fifths: <<3, 4, 0>> is (0.6, 0.8, 0.0).  The plane  *)
(* of a surface is  nx*x + ny*y + nz*z + originOffset = 0.                 *)
(***************************************************************************)
Surfaces == <<
    [type |-> "SURFACE_DEFAULT",     normal |-> <<0, 5, 0>>,  originOffset |-> 0],
    [type |-> "SURFACE_ICE",         normal |-> <<0, 5, 0>>,  originOffset |-> 0],
    [type |-> "SURFACE_DEFAULT",     normal |-> <<0, 5, 0>>,  originOffset |-> 12000],
    [type |-> "SURFACE_DEFAULT",     normal |-> <<0, -5, 0>>, originOffset |-> 0],
    [type |-> "SURFACE_DEFAULT",     normal |-> <<5, 0, 0>>,  originOffset |-> 0],
    [type |-> "SURFACE_DEFAULT",     normal |-> <<3, 4, 0>>,  originOffset |-> 0],
    [type |-> "SURFACE_BURNING",     normal |-> <<0, 5, 0>>,  originOffset |-> 3150],
    [type |-> "SURFACE_BURNING",     normal |-> <<0, 5, 0>>,  originOffset |-> -3450],
    [type |-> "SURFACE_BURNING",     normal |-> <<0, 5, 0>>,  originOffset |-> 0],
    [type |-> "SURFACE_DEATH_PLANE", normal |-> <<0, 5, 0>>,  originOffset |-> 0],
    [type |-> "SURFACE_WATER",       normal |-> <<0, 5, 0>>,  originOffset |-> -150] >>

SurfacePtrs == 1..Len(Surfaces)

\* s.floor->normal as three floats.
NormalOf(surf) == [x |-> Q(surf.normal[1], 5), y |-> Q(surf.normal[2], 5),
                   z |-> Q(surf.normal[3], 5)]

\* The height of a surface's plane above (x, z): -(x*nx + z*nz + oo) / ny.
get_surface_height_at_location(x, z, surf) ==
    LET n == NormalOf(surf)
    IN  IF n.y.n = 0 THEN QInt(0)
        ELSE QNeg(QDiv(QAdd(QAdd(QMul(x, n.x), QMul(z, n.z)), QInt(surf.originOffset)), n.y))

\* The height find_floor reports with a surface: its plane's height above the
\* point (an integer for the points and surfaces of the model); a surface that
\* is no floor (normal.y <= 0) has none, and 0 stands for it.
FloorHeightAt(ptr, x, z) ==
    IF ptr = NULL THEN FLOOR_LOWER_LIMIT
    ELSE IF Surfaces[ptr].normal[2] <= 0 THEN 0
    ELSE QTrunc(get_surface_height_at_location(QInt(x), QInt(z), Surfaces[ptr]))

(***************************************************************************)
(* Angles are s16 (0x4000 is a quarter turn).  sins, coss, atan2s and      *)
(* sqrtf are the engine's; they are given on the angles and lengths the    *)
(* surfaces and yaws of the model produce.                                 *)
(***************************************************************************)
ANGLE_QUARTER == 16384

\* atan2s(0.6, 0.8): the elevation of the normal (0.6, 0.8, 0), 53.13 degrees.
ANGLE_ELEV_345 == 9672

coss(a) ==
    CASE a = 0 -> QInt(1)
      [] a = ANGLE_QUARTER -> QInt(0)
      [] a = -ANGLE_QUARTER -> QInt(0)
      [] a = -2 * ANGLE_QUARTER -> QInt(-1)
      [] a = ANGLE_QUARTER - ANGLE_ELEV_345 -> Q(4, 5)

sins(a) ==
    CASE a = 0 -> QInt(0)
      [] a = ANGLE_QUARTER -> QInt(1)
      [] a = -ANGLE_QUARTER -> QInt(-1)
      [] a = -2 * ANGLE_QUARTER -> QInt(0)
      [] a = ANGLE_QUARTER - ANGLE_ELEV_345 -> Q(3, 5)

\* atan2s(y, x): the angle of (x, y) measured from the y axis (it is called
\* with (z, x) for a yaw), on the arguments init_shadow passes.
atan2s(y, x) ==
    CASE y.n = 0 /\ x.n > 0 -> ANGLE_QUARTER
      [] y.n > 0 /\ x.n = 0 -> 0
      [] y = Q(3, 5) /\ x = Q(4, 5) -> ANGLE_ELEV_345

\* sqrtf on the squares the model forms.
sqrtf(a) == CHOOSE r \in {Q(k, 5) : k \in 0..5} : QMul(r, r) = a

(***************************************************************************)
(* Distance attenuation.                                                   *)
(***************************************************************************)
scale_shadow_with_distance_halved(initial, distFromFloor) ==
    IF QLe(distFromFloor, QInt(0)) THEN QMul(initial, Q(1, 2))
    ELSE IF QLe(QInt(600), distFromFloor) THEN QMul(initial, Q(1, 2))
    ELSE QMul(initial, QSub(QInt(1), QDiv(QMul(distFromFloor, Q(1, 2)), QInt(600))))

scale_shadow_with_distance(initial, distFromFloor) ==
    IF QLe(distFromFloor, QInt(0)) THEN initial
    ELSE IF QLe(QInt(600), distFromFloor) THEN QMul(initial, Q(1, 2))
    ELSE QMul(initial, QSub(QInt(1), QDiv(QMul(distFromFloor, Q(1, 2)), QInt(600))))

dim_shadow_with_distance_no_clamp(solidity, distFromFloor) ==
    IF solidity < 121 THEN solidity
    ELSE IF QLe(distFromFloor, QInt(0)) THEN solidity
    ELSE QTrunc(QAdd(QDiv(QMul(QInt(120 - solidity), distFromFloor), QInt(600)),
                     QInt(solidity)))

\* Returns s32: the float sum is truncated.
dim_shadow_with_distance(solidity, distFromFloor) ==
    IF solidity < 121 THEN solidity
    ELSE IF QLe(distFromFloor, QInt(0)) THEN solidity
    ELSE IF QLe(QInt(600), distFromFloor) THEN 120
    ELSE QTrunc(QAdd(QDiv(QMul(QInt(120 - solidity), distFromFloor), QInt(600)),
                     QInt(solidity)))

\* An s32 stored into the u8 s.solidity.
ToU8(v) == v % 256

(***************************************************************************)
(* Easing.  Both functions store their result in s.solidity; the operators *)
(* give the value stored.                                                  *)
(***************************************************************************)
\* The conversion of a float to u8.  It is defined when the truncated value is
\* in 0..255; otherwise the behaviour is undefined, and conv names what the
\* build does: "wrap" (truncate to an integer, keep the low byte) or "sat"
\* (a saturating conversion).
F32ToU8(v, conv) ==
    LET t == QTrunc(v)
    IN  IF t \in 0..255 THEN t
        ELSE IF conv = "wrap" THEN t % 256
        ELSE IF t < 0 THEN 0 ELSE 255

linearly_interpolate_solidity_positive(finalSolidity, curr, start, end, conv) ==
    IF curr >= 0 /\ curr < start THEN 0
    ELSE IF end < curr THEN finalSolidity
    ELSE F32ToU8(QDiv(QMul(QInt(finalSolidity), QInt(curr - start)), QInt(end - start)), conv)

linearly_interpolate_solidity_negative_held(initialSolidity, curr, start, end) ==
    IF curr >= start /\ end >= curr
    THEN F32MulU8Trunc(initialSolidity, F32OneMinus(F32Quot(curr - start, end - start)))
    ELSE IF curr < start THEN initialSolidity ELSE 0

linearly_interpolate_solidity_negative(initialSolidity, curr, start, end) ==
    IF curr >= start /\ end >= curr
    THEN F32MulU8Trunc(initialSolidity, F32OneMinus(F32Quot(curr - start, end - start)))
    ELSE 0

(***************************************************************************)
(* Corner of a vertex index.                                               *)
(***************************************************************************)
\* For an index in 0..3, index & 1 is index % 2 and index >> 1 is index \div 2.
get_texture_coords(vertexNum, hd) ==
    IF hd THEN <<((vertexNum % 2) * 127) - 63, ((vertexNum \div 2) * 127) - 63>>
    ELSE <<((vertexNum % 2) * 31) - 15, ((vertexNum \div 2) * 31) - 15>>

get_vertex_coords_swapped(index) ==
    LET x0 == (index \div 2) - 1
        z0 == (index % 2) - 1
    IN  <<IF x0 = 0 THEN 1 ELSE x0, IF z0 = 0 THEN 1 ELSE z0>>

get_vertex_coords(index) ==
    LET x0 == (index % 2) - 1
        z0 == (index \div 2) - 1
    IN  <<IF x0 = 0 THEN 1 ELSE x0, IF z0 = 0 THEN 1 ELSE z0>>

(***************************************************************************)
(* The adapter: water level and init_shadow.  s is the workspace           *)
(* gCurrShadow, f the flag set gShadowFlags, in the arguments of the build *)
(* and the answers of its collaborators.                                   *)
(***************************************************************************)
\* What a read through s.floor sees.  A read through NULL is undefined; where
\* the build goes on, it sees the bytes of surface in.ubSurf.
Deref(ptr, in) == IF ptr = NULL THEN Surfaces[in.ubSurf] ELSE Surfaces[ptr]

\* find_water_level_and_floor answers in.waterLevel and in.waterFloor.
get_water_level_below_shadow(s, f, in) ==
    IF in.waterLevel < FLOOR_LOWER_LIMIT_MISC
    THEN [level |-> FLOOR_LOWER_LIMIT_MISC, f |-> f]
    ELSE IF s.parentPos[2] >= in.waterLevel /\ s.floorHeight <= in.waterLevel
    THEN [level |-> in.waterLevel, f |-> f \cup {"WATER_BOX"}]
    ELSE [level |-> in.waterLevel, f |-> f]

\* floorPitch and floorYaw of a normal.
FloorAngles(n) ==
    Let(QAdd(QMul(n.x, n.x), QMul(n.z, n.z)), LAMBDA floorSteepness :
        IF floorSteepness.n # 0
        THEN [pitch |-> ANGLE_QUARTER - atan2s(sqrtf(floorSteepness), n.y),
              yaw   |-> atan2s(n.z, n.x)]
        ELSE [pitch |-> 0, yaw |-> 0])

\* The tail of init_shadow, lines 200-217.
InitShadowTail(s, f, n, yPos, shadowScale, overwriteSolidity) ==
    Let(<<s, QInt(yPos - s.floorHeight), FloorAngles(n)>>, LAMBDA v :
        LET dy == v[2]
            a  == v[3]
        IN  [fail |-> FALSE,
             f |-> f,
             s |-> [v[1] EXCEPT
                      !.solidity = IF overwriteSolidity # 0
                                   THEN ToU8(dim_shadow_with_distance(overwriteSolidity, dy))
                                   ELSE @,
                      !.shadowScale = scale_shadow_with_distance(QInt(shadowScale), dy),
                      !.floorPitch = a.pitch,
                      !.floorYaw = a.yaw]])

init_shadow_no_floor_check(s, f, in, xPos, yPos, zPos, shadowScale, overwriteSolidity) ==
    Let([s EXCEPT !.parentPos = <<xPos, yPos, zPos>>], LAMBDA s1 :
    Let(get_water_level_below_shadow(s1, f, in), LAMBDA w :
    Let(NormalOf(Deref(s1.floor, in)), LAMBDA n :
        IF "WATER_BOX" \in w.f
        THEN IF in.waterFloor # NULL
             THEN InitShadowTail([s1 EXCEPT !.floorHeight = w.level, !.floor = in.waterFloor,
                                            !.solidity = 200],
                                 (w.f \ {"WATER_BOX"}) \cup {"WATER_SURFACE"},
                                 n, yPos, shadowScale, overwriteSolidity)
             ELSE InitShadowTail([s1 EXCEPT !.floorHeight = w.level],
                                 w.f \ {"WATER_SURFACE"},
                                 [x |-> QInt(0), y |-> QInt(1), z |-> QInt(0)],
                                 yPos, shadowScale, overwriteSolidity)
        ELSE InitShadowTail(s1, w.f, n, yPos, shadowScale, overwriteSolidity))))

\* Returns fail (TRUE: no shadow) with the workspace and flags it leaves.
init_shadow(s, f, in, xPos, yPos, zPos, shadowScale, overwriteSolidity) ==
    Let([s EXCEPT !.parentPos = <<xPos, yPos, zPos>>], LAMBDA s1 :
    Let(get_water_level_below_shadow(s1, f, in), LAMBDA w :
    Let(NormalOf(Deref(s1.floor, in)), LAMBDA n :
        IF "WATER_BOX" \in w.f
        THEN IF in.waterFloor # NULL
             THEN InitShadowTail([s1 EXCEPT !.floorHeight = w.level, !.floor = in.waterFloor,
                                            !.solidity = 200],
                                 (w.f \ {"WATER_BOX"}) \cup {"WATER_SURFACE"},
                                 n, yPos, shadowScale, overwriteSolidity)
             ELSE InitShadowTail([s1 EXCEPT !.floorHeight = w.level],
                                 w.f \ {"WATER_SURFACE"},
                                 [x |-> QInt(0), y |-> QInt(1), z |-> QInt(0)],
                                 yPos, shadowScale, overwriteSolidity)
        ELSE IF n.y.n <= 0 \/ s1.floorHeight < FLOOR_LOWER_LIMIT_MISC
             THEN [fail |-> TRUE, f |-> w.f, s |-> s1]
             ELSE InitShadowTail(s1, w.f, n, yPos, shadowScale, overwriteSolidity))))

(***************************************************************************)
(* Vertices.  A Vtx is [pos, tc, alpha]; its colour is always 255,255,255. *)
(***************************************************************************)
make_shadow_vertex_at_xyz_truncated(f, index, relX, relY, relZ, alpha) ==
    LET t == get_texture_coords(index, HD_SHADOWS)
        vtxY == QTrunc(relY) + (IF "RAISED" \in f THEN 5 ELSE 0)
    IN  [pos |-> <<QTrunc(relX), vtxY, QTrunc(relZ)>>,
         tc |-> <<t[1] * 32, t[2] * 32>>,
         alpha |-> alpha]

make_shadow_vertex_at_xyz(f, index, relX, relY, relZ, alpha) ==
    LET t == get_texture_coords(index, HD_SHADOWS)
        vtxY == roundf(relY) + (IF "RAISED" \in f THEN 5 ELSE 0)
    IN  [pos |-> <<roundf(relX), vtxY, roundf(relZ)>>,
         tc |-> <<t[1] * 32, t[2] * 32>>,
         alpha |-> alpha]

\* The position <<x, y, z>> of vertex index.
calculate_vertex_xyz(s, f, in, index) ==
    Let(get_vertex_coords(index), LAMBDA c :
    Let(QMul(coss(s.floorPitch), s.shadowScale), LAMBDA tiltedScale :
    Let(QDiv(QMul(QInt(c[1]), s.shadowScale), QInt(2)), LAMBDA halfScale :
    Let(QDiv(QMul(QInt(c[2]), tiltedScale), QInt(2)), LAMBDA halfTiltedScale :
    Let(<<sins(s.floorYaw), coss(s.floorYaw)>>, LAMBDA yaw :
        LET sinYaw == yaw[1]
            cosYaw == yaw[2]
        IN  Let(QAdd(QAdd(QMul(halfTiltedScale, sinYaw), QMul(halfScale, cosYaw)),
                     QInt(s.parentPos[1])), LAMBDA x :
            Let(QAdd(QSub(QMul(halfTiltedScale, cosYaw), QMul(halfScale, sinYaw)),
                     QInt(s.parentPos[3])), LAMBDA z :
                <<x,
                  IF "WATER_BOX" \in f THEN QInt(s.floorHeight)
                  ELSE get_surface_height_at_location(x, z, Deref(s.floor, in)),
                  z>>)))))))

make_shadow_vertex_workspace_alpha(s, f, in, index) ==
    Let(calculate_vertex_xyz(s, f, in, index), LAMBDA p :
        make_shadow_vertex_at_xyz(f, index,
            QSub(p[1], QInt(s.parentPos[1])),
            QSub(p[2], QInt(s.parentPos[2])),
            QSub(p[3], QInt(s.parentPos[3])), s.solidity))

make_shadow_vertex(s, f, in, index) ==
    LET solidity == IF "WATER_BOX" \in f THEN 200 ELSE s.solidity
    IN  Let(calculate_vertex_xyz(s, f, in, index), LAMBDA p :
            make_shadow_vertex_at_xyz(f, index,
                QSub(p[1], QInt(s.parentPos[1])),
                QSub(p[2], QInt(s.parentPos[2])),
                QSub(p[3], QInt(s.parentPos[3])), solidity))

(***************************************************************************)
(* Strategies.  Each returns [dl, shape, verts, allocs, s, f]: the display *)
(* list returned ("NULL" or "DL"), its shape, the four vertices written    *)
(* (verts[i + 1] is vertex i), the number of alloc_display_list calls,     *)
(* and the workspace and flags left.                                       *)
(***************************************************************************)
NoShadow(s, f, allocs) ==
    [dl |-> "NULL", shape |-> "NONE", verts |-> <<>>, allocs |-> allocs, s |-> s, f |-> f]

\* add_shadow_to_display_list: the shape's list, the 4 vertices, the end list.
Shadow(s, f, shape, verts) ==
    [dl |-> "DL", shape |-> shape, verts |-> verts, allocs |-> 2, s |-> s, f |-> f]

correct_shadow_solidity_for_animations_not_set(s, in, initialSolidity) ==
    CASE in.animID = "MARIO_ANIM_IDLE_ON_LEDGE" ->
            [code |-> "SHADOW_SOLIDITY_NO_SHADOW", s |-> s]
      [] in.animID = "MARIO_ANIM_FAST_LEDGE_GRAB" ->
            [code |-> "SHADOW_SOLIDITY_NOT_YET_SET",
             s |-> [s EXCEPT !.solidity = linearly_interpolate_solidity_positive(
                                              initialSolidity, in.animFrame, 5, 14, in.ubConv)]]
      [] in.animID = "MARIO_ANIM_SLOW_LEDGE_GRAB" ->
            [code |-> "SHADOW_SOILDITY_ALREADY_SET",
             s |-> [s EXCEPT !.solidity = linearly_interpolate_solidity_positive(
                                              initialSolidity, in.animFrame, 21, 33, in.ubConv)]]
      [] in.animID = "MARIO_ANIM_CLIMB_DOWN_LEDGE" ->
            [code |-> "SHADOW_SOILDITY_ALREADY_SET",
             s |-> [s EXCEPT !.solidity = linearly_interpolate_solidity_negative(
                                              initialSolidity, in.animFrame, 0, 5)]]
      [] OTHER -> [code |-> "SHADOW_SOLIDITY_NOT_YET_SET", s |-> s]

\* Returns the code and the solidity left in the workspace.
correct_shadow_solidity_for_animations(s, in, initialSolidity) ==
    CASE in.animID = "MARIO_ANIM_IDLE_ON_LEDGE" ->
            [code |-> "SHADOW_SOLIDITY_NO_SHADOW", s |-> s]
      [] in.animID = "MARIO_ANIM_FAST_LEDGE_GRAB" ->
            [code |-> "SHADOW_SOILDITY_ALREADY_SET",
             s |-> [s EXCEPT !.solidity = linearly_interpolate_solidity_positive(
                                              initialSolidity, in.animFrame, 5, 14, in.ubConv)]]
      [] in.animID = "MARIO_ANIM_SLOW_LEDGE_GRAB" ->
            [code |-> "SHADOW_SOILDITY_ALREADY_SET",
             s |-> [s EXCEPT !.solidity = linearly_interpolate_solidity_positive(
                                              initialSolidity, in.animFrame, 21, 33, in.ubConv)]]
      [] in.animID = "MARIO_ANIM_CLIMB_DOWN_LEDGE" ->
            [code |-> "SHADOW_SOILDITY_ALREADY_SET",
             s |-> [s EXCEPT !.solidity = linearly_interpolate_solidity_negative(
                                              initialSolidity, in.animFrame, 0, 5)]]
      [] OTHER -> [code |-> "SHADOW_SOLIDITY_NOT_YET_SET", s |-> s]

\* Returns the workspace and flags left.
correct_lava_shadow_height(s, f, in) ==
    LET type_ == Deref(s.floor, in).type
    IN  IF in.level = "LEVEL_BITFS" /\ type_ = "SURFACE_BURNING"
        THEN IF s.floorHeight < -3000
             THEN [s |-> [s EXCEPT !.floorHeight = -3062], f |-> f \cup {"WATER_BOX"}]
             ELSE IF s.floorHeight > 3400
             THEN [s |-> [s EXCEPT !.floorHeight = 3492], f |-> f \cup {"WATER_BOX"}]
             ELSE [s |-> s, f |-> f]
        ELSE IF in.level = "LEVEL_LLL" /\ in.area = 1 /\ type_ = "SURFACE_BURNING"
        THEN [s |-> [s EXCEPT !.floorHeight = 5], f |-> f \cup {"WATER_BOX"}]
        ELSE [s |-> s, f |-> f]

\* The loop for (i = 0; i < 4; i++) make_shadow_vertex(verts, i).
FourVertices(s, f, in) == [i \in 1..4 |-> make_shadow_vertex(s, f, in, i - 1)]

\* Lines 426-435: the flying carpet of LEVEL_RR.
CarpetFlags(s, f, in) ==
    IF in.level = "LEVEL_RR" /\ Deref(s.floor, in).type # "SURFACE_DEATH_PLANE"
    THEN CASE in.carpet = "FLYING_CARPET_MOVING_WITHOUT_MARIO" ->
                 f \cup {"ICE_CARPET", "RAISED"}
           [] in.carpet = "FLYING_CARPET_MOVING_WITH_MARIO" -> f \cup {"ICE_CARPET"}
           [] OTHER -> f
    ELSE f

create_shadow_player(s, f, in, xPos, yPos, zPos, shadowScale, solidity) ==
    Let(CarpetFlags(s, f, in), LAMBDA f1 :
    Let(correct_shadow_solidity_for_animations(s, in, solidity), LAMBDA a :
        IF a.code = "SHADOW_SOLIDITY_NO_SHADOW" THEN NoShadow(a.s, f1, 0)
        ELSE
          Let(init_shadow(a.s, f1, in, xPos, yPos, zPos, shadowScale,
                          IF a.code = "SHADOW_SOILDITY_ALREADY_SET" THEN 0 ELSE solidity),
              LAMBDA i :
                IF i.fail THEN NoShadow(i.s, i.f, 0)
                ELSE IF ~in.allocVerts \/ ~in.allocDl THEN NoShadow(i.s, i.f, 2)
                ELSE Let(correct_lava_shadow_height(i.s, i.f, in), LAMBDA l :
                         Shadow(l.s, l.f, "SHADOW_SHAPE_CIRCLE",
                                FourVertices(l.s, l.f, in))))))

create_shadow_circle(s, f, in, xPos, yPos, zPos, shadowScale, solidity) ==
    Let(init_shadow(s, f, in, xPos, yPos, zPos, shadowScale, solidity), LAMBDA i :
        IF i.fail THEN NoShadow(i.s, i.f, 0)
        ELSE IF ~in.allocVerts \/ ~in.allocDl THEN NoShadow(i.s, i.f, 2)
        ELSE Shadow(i.s, i.f, "SHADOW_SHAPE_CIRCLE", FourVertices(i.s, i.f, in)))

\* newZ and newX of a point after a rotation by the object's oFaceAngleYaw.
rotate_rectangle(in, oldZ, oldX) ==
    LET sinYaw == sins(in.faceYaw)
        cosYaw == coss(in.faceYaw)
    IN  [z |-> QSub(QMul(oldZ, cosYaw), QMul(oldX, sinYaw)),
         x |-> QAdd(QMul(oldZ, sinYaw), QMul(oldX, cosYaw))]

create_shadow_rectangle(s, f, in, halfWidth, halfLength, relY, solidity) ==
    IF ~in.allocVerts \/ ~in.allocDl THEN NoShadow(s, f, 2)
    ELSE Let(<<rotate_rectangle(in, QNeg(halfLength), QNeg(halfWidth)),
               rotate_rectangle(in, QNeg(halfLength), halfWidth),
               rotate_rectangle(in, halfLength, QNeg(halfWidth)),
               rotate_rectangle(in, halfLength, halfWidth)>>, LAMBDA c :
         LET frontLeft  == c[1]
             frontRight == c[2]
             backLeft   == c[3]
             backRight  == c[4]
         IN  Shadow(s, f, "SHADOW_SHAPE_SQUARE",
                 << make_shadow_vertex_at_xyz(f, 0, frontLeft.x,  relY, frontLeft.z,  solidity),
                    make_shadow_vertex_at_xyz(f, 1, frontRight.x, relY, frontRight.z, solidity),
                    make_shadow_vertex_at_xyz(f, 2, backLeft.x,   relY, backLeft.z,   solidity),
                    make_shadow_vertex_at_xyz(f, 3, backRight.x,  relY, backRight.z,  solidity) >>))

\* find_water_level answers in.waterLevel.  Returns fail (TRUE: no shadow),
\* the shadow height, the solidity and the flags.
get_shadow_height_solidity_no_limit(s, f, in, xPos, yPos, zPos, solidity) ==
    IF in.waterLevel < FLOOR_LOWER_LIMIT_MISC
    THEN [fail |-> FALSE, shadowHeight |-> s.floorHeight, solidity |-> solidity, f |-> f]
    ELSE IF yPos >= in.waterLevel /\ in.waterLevel >= s.floorHeight
    THEN [fail |-> FALSE, shadowHeight |-> in.waterLevel, solidity |-> 200,
          f |-> f \cup {"WATER_BOX"}]
    ELSE [fail |-> FALSE, shadowHeight |-> s.floorHeight, solidity |-> solidity, f |-> f]

get_shadow_height_solidity(s, f, in, xPos, yPos, zPos, solidity) ==
    IF s.floorHeight < FLOOR_LOWER_LIMIT_MISC
    THEN [fail |-> TRUE, shadowHeight |-> s.floorHeight, solidity |-> solidity, f |-> f]
    ELSE IF in.waterLevel < FLOOR_LOWER_LIMIT_MISC
    THEN [fail |-> FALSE, shadowHeight |-> s.floorHeight, solidity |-> solidity, f |-> f]
    ELSE IF yPos >= in.waterLevel /\ in.waterLevel >= s.floorHeight
    THEN [fail |-> FALSE, shadowHeight |-> in.waterLevel, solidity |-> 200,
          f |-> f \cup {"WATER_BOX"}]
    ELSE [fail |-> FALSE, shadowHeight |-> s.floorHeight, solidity |-> solidity, f |-> f]

\* shadowScale >> 1 on an s16: the floor of the half.
HalfS16(shadowScale) == shadowScale \div 2

create_shadow_square(s, f, in, xPos, yPos, zPos, shadowScale, solidity, shadowType) ==
    Let(get_shadow_height_solidity(s, f, in, xPos, yPos, zPos, solidity), LAMBDA h :
        IF h.fail THEN NoShadow(s, h.f, 0)
        ELSE
          LET distFromShadow == QInt(yPos - h.shadowHeight)
          IN  Let(CASE shadowType = "SHADOW_SQUARE_PERMANENT" -> QInt(HalfS16(shadowScale))
                    [] shadowType = "SHADOW_SQUARE_SCALABLE" ->
                          QMul(scale_shadow_with_distance(QInt(shadowScale), distFromShadow),
                               Q(1, 2))
                    [] shadowType = "SHADOW_SQUARE_TOGGLABLE" ->
                          IF QLe(QInt(600), distFromShadow) THEN QInt(0)
                          ELSE QInt(HalfS16(shadowScale)),
                  LAMBDA shadowRadius :
                    create_shadow_rectangle(s, h.f, in, shadowRadius, shadowRadius,
                                            QNeg(distFromShadow), h.solidity)))

\* The hardcoded rectangles: Spindels, Whomps.
rectangles == <<
    [halfWidth |-> 360, halfLength |-> 230, scaleWithDistance |-> TRUE],
    [halfWidth |-> 200, halfLength |-> 180, scaleWithDistance |-> TRUE] >>

\* rectangles[idx].  An idx outside the array reads whatever lies there, which
\* in.ubRect stands for.
RectangleAt(idx, in) == IF idx \in 0..1 THEN rectangles[idx + 1] ELSE in.ubRect

create_shadow_hardcoded_rectangle_guarded(s, f, in, xPos, yPos, zPos, shadowScale, solidity, idx) ==
    Let(get_shadow_height_solidity(s, f, in, xPos, yPos, zPos, solidity), LAMBDA h :
        IF h.fail \/ idx \notin 0..1 THEN NoShadow(s, h.f, 0)
        ELSE
          LET distFromShadow == QInt(yPos - h.shadowHeight)
              r == rectangles[idx + 1]
          IN  create_shadow_rectangle(s, h.f, in,
                  scale_shadow_with_distance(QInt(r.halfWidth), distFromShadow),
                  scale_shadow_with_distance(QInt(r.halfLength), distFromShadow),
                  QNeg(distFromShadow), h.solidity))

\* in.rectIdx is shadowType - SHADOW_RECTANGLE_HARDCODED_OFFSET.
create_shadow_hardcoded_rectangle(s, f, in, xPos, yPos, zPos, shadowScale, solidity, idx) ==
    Let(get_shadow_height_solidity(s, f, in, xPos, yPos, zPos, solidity), LAMBDA h :
        IF h.fail THEN NoShadow(s, h.f, 0)
        ELSE
          LET distFromShadow == QInt(yPos - h.shadowHeight)
              r == RectangleAt(idx, in)
          IN  Let(<<IF r.scaleWithDistance
                    THEN scale_shadow_with_distance(QInt(r.halfWidth), distFromShadow)
                    ELSE QInt(r.halfWidth),
                    IF r.scaleWithDistance
                    THEN scale_shadow_with_distance(QInt(r.halfLength), distFromShadow)
                    ELSE QInt(r.halfLength)>>,
                  LAMBDA half :
                    create_shadow_rectangle(s, h.f, in, half[1], half[2],
                                            QNeg(distFromShadow), h.solidity)))

(***************************************************************************)
(* The dispatcher.                                                         *)
(***************************************************************************)
SquareTypes == {"SHADOW_SQUARE_PERMANENT", "SHADOW_SQUARE_SCALABLE", "SHADOW_SQUARE_TOGGLABLE"}

\* The switch of lines 655-662.
Dispatch(s, f, in) ==
    CASE in.shadowType = "SHADOW_CIRCLE_PLAYER" ->
            create_shadow_player(s, f, in, in.xPos, in.yPos, in.zPos,
                                 in.shadowScale, in.shadowSolidity)
      [] in.shadowType = "SHADOW_CIRCLE" ->
            create_shadow_circle(s, f, in, in.xPos, in.yPos, in.zPos,
                                 in.shadowScale, in.shadowSolidity)
      [] in.shadowType \in SquareTypes ->
            create_shadow_square(s, f, in, in.xPos, in.yPos, in.zPos,
                                 in.shadowScale, in.shadowSolidity, in.shadowType)
      [] OTHER ->
            create_shadow_hardcoded_rectangle(s, f, in, in.xPos, in.yPos, in.zPos,
                                 in.shadowScale, in.shadowSolidity, in.rectIdx)

\* Lines 636-648: the floor the build works with.  query: find_floor was called.
ResolveFloor(s, in) ==
    IF in.obj = "mario"
    THEN [s |-> [s EXCEPT !.floor = in.cachedFloor, !.floorHeight = in.cachedHeight],
          query |-> FALSE]
    ELSE IF in.obj # "mirror" /\ in.cachedFloor # NULL
    THEN [s |-> [s EXCEPT !.floor = in.cachedFloor, !.floorHeight = in.cachedHeight],
          query |-> FALSE]
    ELSE [s |-> [s EXCEPT !.floor = in.foundFloor, !.floorHeight = in.foundHeight],
          query |-> TRUE]

\* The build: [dl, shape, verts, allocs, query, nullDeref, s, f].  A read of
\* s.floor->type through NULL either faults (in.ubSurf = NULL: dl is "FAULT")
\* or reads the bytes in.ubSurf stands for.
create_shadow_below_xyz(s, f, in) ==
    Let(ResolveFloor(s, in), LAMBDA r :
    Let(IF r.query /\ r.s.floor = NULL THEN NoShadow(r.s, f, 0)
        ELSE IF r.s.floor = NULL /\ in.ubSurf = NULL
        THEN [NoShadow(r.s, {}, 0) EXCEPT !.dl = "FAULT"]
        ELSE Let(IF Deref(r.s.floor, in).type = "SURFACE_ICE" THEN {"ICE_CARPET"} ELSE {},
                 LAMBDA f0 : Dispatch(r.s, f0, in)),
        LAMBDA outcome :
          [dl |-> outcome.dl, shape |-> outcome.shape, verts |-> outcome.verts,
           allocs |-> outcome.allocs, query |-> r.query,
           nullDeref |-> (~r.query /\ r.s.floor = NULL),
           s |-> outcome.s, f |-> outcome.f]))

(***************************************************************************)
(* The inputs of a build: its arguments, the object being drawn, and what  *)
(* the collaborators answer during it.                                     *)
(*   obj          "mario" (gCurGraphNodeObjectNode == gMarioObject),       *)
(*                "mirror" (gCurGraphNodeObject == &gMirrorMario), "object"*)
(*   cachedFloor  gMarioState->floor for mario, oFloor otherwise           *)
(*   foundFloor   what find_floor stores through &s.floor                  *)
(*   waterLevel   what find_water_level(_and_floor) returns                *)
(*   waterFloor   what find_water_level_and_floor stores                   *)
(*   allocVerts, allocDl  whether alloc_display_list returns a buffer      *)
(*   rectIdx      shadowType - SHADOW_RECTANGLE_HARDCODED_OFFSET           *)
(*   ubSurf, ubConv, ubRect  what the build makes of undefined behaviour   *)
(***************************************************************************)
Base ==
    [obj |-> "object", cachedFloor |-> 1, cachedHeight |-> 0,
     foundFloor |-> NULL, foundHeight |-> FLOOR_LOWER_LIMIT,
     xPos |-> 0, yPos |-> 0, zPos |-> 0,
     shadowScale |-> 614, shadowSolidity |-> 255,
     shadowType |-> "SHADOW_CIRCLE", rectIdx |-> 0,
     waterLevel |-> FLOOR_LOWER_LIMIT, waterFloor |-> NULL,
     animID |-> "MARIO_ANIM_IDLE", animFrame |-> 0,
     level |-> "LEVEL_BOB", area |-> 1, carpet |-> "FLYING_CARPET_IDLE",
     allocVerts |-> TRUE, allocDl |-> TRUE, faceYaw |-> 0,
     ubSurf |-> NULL, ubConv |-> "wrap", ubRect |-> rectangles[1]]

\* The shadow types: the five named ones and the hardcoded rectangles 0, 1
\* and, out of the table, 2 (with two contents of the memory behind the table).
TypeCases ==
    {[shadowType |-> t, rectIdx |-> 0, ubRect |-> rectangles[1]] :
        t \in {"SHADOW_CIRCLE_PLAYER", "SHADOW_CIRCLE"} \cup SquareTypes}
    \cup {[shadowType |-> "SHADOW_RECTANGLE_HARDCODED", rectIdx |-> i, ubRect |-> rectangles[1]] :
        i \in 0..1}

\* The hardcoded rectangle with an index outside the array, and what is read there.
OutOfRangeCases ==
    {[shadowType |-> "SHADOW_RECTANGLE_HARDCODED", rectIdx |-> 2, ubRect |-> r] :
        r \in {[halfWidth |-> 0, halfLength |-> 0, scaleWithDistance |-> FALSE],
               [halfWidth |-> 90, halfLength |-> 40, scaleWithDistance |-> TRUE]}}

WithType(b, t) ==
    [b EXCEPT !.shadowType = t.shadowType, !.rectIdx = t.rectIdx, !.ubRect = t.ubRect]

\* The object and its floor.  A cached or found height is the height of the
\* surface's plane above the object.
Cached(b, obj, ptr) ==
    [b EXCEPT !.obj = obj, !.cachedFloor = ptr,
              !.cachedHeight = FloorHeightAt(ptr, b.xPos, b.zPos)]

Found(b, obj, cached, ptr) ==
    [Cached(b, obj, cached) EXCEPT !.foundFloor = ptr,
              !.foundHeight = FloorHeightAt(ptr, b.xPos, b.zPos)]

FloorCases(b) ==
    {Cached(b, "object", p) : p \in 1..6}
    \cup {Cached(b, "mario", p) : p \in {1, 4}}
    \cup {[Cached(b, "mario", NULL) EXCEPT !.ubSurf = u] : u \in {NULL, 1, 4}}
    \cup {Found(b, "object", NULL, p) : p \in {NULL, 1, 3}}
    \cup {Found(b, "mirror", c, p) : c \in {NULL, 2}, p \in {NULL, 1}}

\* No water; water at 150 with no surface object; water at 150 with surface 11.
WaterCases == {[level |-> FLOOR_LOWER_LIMIT, floor |-> NULL],
               [level |-> 150, floor |-> NULL],
               [level |-> 150, floor |-> 11]}

WithWater(b, w) == [b EXCEPT !.waterLevel = w.level, !.waterFloor = w.floor]

Heights == {0, 300, 600, 750}
Solidities == {0, 100, 255}
Frames == {-1, 0, 3, 5, 6, 9, 14, 15, 21, 27, 33, 34}
LedgeAnims == {"MARIO_ANIM_IDLE_ON_LEDGE", "MARIO_ANIM_FAST_LEDGE_GRAB",
               "MARIO_ANIM_SLOW_LEDGE_GRAB", "MARIO_ANIM_CLIMB_DOWN_LEDGE"}

\* Every type on every floor, below and above the water.
FloorInputs ==
    UNION {FloorCases(WithWater(WithType([Base EXCEPT !.yPos = y], t), w)) :
              y \in {0, 300}, t \in TypeCases, w \in WaterCases}

\* Every type at every height, solidity and scale on the flat floor.
AttenuationInputs ==
    {WithType([Base EXCEPT !.yPos = y, !.shadowSolidity = a, !.shadowScale = k], t) :
        y \in Heights, a \in Solidities, k \in {614, 201}, t \in TypeCases}

\* Every type over water, on the flat and the tilted floor.
WaterInputs ==
    {Cached(WithWater(WithType([Base EXCEPT !.yPos = y, !.shadowSolidity = a], t), w),
            "object", p) :
        y \in {300, 750}, a \in {0, 100}, t \in TypeCases,
        w \in WaterCases \ {[level |-> FLOOR_LOWER_LIMIT, floor |-> NULL]}, p \in {1, 6}}

\* Every type with a failing allocator, and away from the origin and turned.
AllocInputs ==
    {WithType([Base EXCEPT !.allocVerts = v, !.allocDl = d], t) :
        v \in BOOLEAN, d \in BOOLEAN, t \in TypeCases \cup OutOfRangeCases}

PoseInputs ==
    {Cached(WithType([Base EXCEPT !.xPos = xz[1], !.zPos = xz[2], !.faceYaw = a], t),
            "object", p) :
        xz \in {<<0, 0>>, <<200, -40>>}, a \in {0, ANGLE_QUARTER},
        t \in TypeCases \cup OutOfRangeCases, p \in {1, 6}}

\* The player's shadow through the ledge animations.
AnimInputs ==
    UNION {{Cached(WithWater([Base EXCEPT !.shadowType = "SHADOW_CIRCLE_PLAYER",
                                          !.yPos = y, !.shadowSolidity = a,
                                          !.animID = id, !.animFrame = fr,
                                          !.ubConv = c], w), "mario", 1) :
               y \in {0, 300}, a \in {0, 255}, id \in LedgeAnims, w \in WaterCases,
               \* the conversion matters for a negative frame only
               c \in IF fr < 0 THEN {"wrap", "sat"} ELSE {"wrap"}} :
           fr \in Frames}

\* The player's shadow in the levels with a carpet or lava.
LevelInputs ==
    {Cached([Base EXCEPT !.shadowType = "SHADOW_CIRCLE_PLAYER", !.level = l, !.area = ar,
                         !.carpet = c, !.animID = an[1], !.animFrame = an[2]], "mario", p) :
        l \in {"LEVEL_RR", "LEVEL_BITFS", "LEVEL_LLL"}, ar \in 1..2,
        c \in {"FLYING_CARPET_IDLE", "FLYING_CARPET_MOVING_WITHOUT_MARIO",
               "FLYING_CARPET_MOVING_WITH_MARIO"},
        an \in {<<"MARIO_ANIM_IDLE", 0>>, <<"MARIO_ANIM_FAST_LEDGE_GRAB", 9>>},
        p \in {1, 7, 8, 9, 10}}

\* The two circle strategies on the lava of LEVEL_BITFS and LEVEL_LLL.
LavaInputs ==
    {Cached([Base EXCEPT !.shadowType = t, !.level = l, !.area = ar], "object", p) :
        t \in {"SHADOW_CIRCLE_PLAYER", "SHADOW_CIRCLE"},
        l \in {"LEVEL_BITFS", "LEVEL_LLL"}, ar \in 1..2, p \in {1, 7, 8, 9}}

(***************************************************************************)
(* The state machine of the builds.                                        *)
(***************************************************************************)
\* gCurrShadow and gShadowFlags have static storage: all zero.
ZeroShadow ==
    [parentPos |-> <<0, 0, 0>>, floorHeight |-> 0, shadowScale |-> QInt(0),
     floor |-> NULL, floorPitch |-> 0, floorYaw |-> 0, solidity |-> 0]

NoRet ==
    [dl |-> "NULL", shape |-> "NONE", verts |-> <<>>, allocs |-> 0,
     query |-> FALSE, nullDeref |-> FALSE]

NoFnIn == [fn |-> "none", a |-> 0, b |-> 0, c |-> 0, d |-> 0, conv |-> "wrap"]
NoFnOut == [done |-> FALSE, v |-> <<>>]

Init ==
    /\ gCurrShadow = ZeroShadow
    /\ gShadowFlags = {}
    /\ pc = "idle"
    /\ call = Base
    /\ ret = NoRet
    /\ fnIn = NoFnIn
    /\ fnOut = NoFnOut

\* One call of create_shadow_below_xyz with inputs from In.
BuildShadow(In) ==
    /\ pc = "idle"
    /\ \E in \in In :
          \E r \in {create_shadow_below_xyz(gCurrShadow, gShadowFlags, in)} :
              /\ gCurrShadow' = r.s
              /\ gShadowFlags' = r.f
              /\ call' = in
              /\ ret' = [dl |-> r.dl, shape |-> r.shape, verts |-> r.verts,
                         allocs |-> r.allocs, query |-> r.query,
                         nullDeref |-> r.nullDeref]
    /\ pc' = "done"
    /\ UNCHANGED <<fnIn, fnOut>>

\* The renderer takes the returned list into the frame's command stream and
\* goes on to the next object; a build that faulted is not returned from.
ConsumeShadow ==
    /\ pc = "done"
    /\ ret.dl # "FAULT"
    /\ pc' = "idle"
    /\ call' = Base
    /\ ret' = NoRet
    /\ UNCHANGED <<gCurrShadow, gShadowFlags, fnIn, fnOut>>

\* Builds of every type on every floor.
BuildOnFloors == BuildShadow(FloorInputs)

NextFloor == BuildOnFloors \/ ConsumeShadow

SpecFloor == Init /\ [][NextFloor]_vars

\* Builds of every type at every height, pose and allocator answer.
BuildShapes ==
    BuildShadow(AttenuationInputs \cup WaterInputs \cup AllocInputs \cup PoseInputs
                    \cup LavaInputs)

NextShape == BuildShapes \/ ConsumeShadow

SpecShape == Init /\ [][NextShape]_vars

\* Builds of the player's shadow.
BuildPlayer == BuildShadow(AnimInputs \cup LevelInputs)

NextPlayer == BuildPlayer \/ ConsumeShadow

SpecPlayer == Init /\ [][NextPlayer]_vars

(***************************************************************************)
(* The attenuation, easing and corner functions on their own: the         *)
(* arguments are drawn at the start, one step applies the function.        *)
(*   fnIn   [fn, a, b, c, d, conv]: the function and its arguments         *)
(*   fnOut  [done, v]: whether it was applied, and what it returned        *)
(***************************************************************************)
NegDistSteps == 2
MaxDistSteps == 17
NegFrames == 3
MaxFrame == 36

\* Distances from the floor: multiples of 75.
FnDists == {75 * k : k \in -NegDistSteps..MaxDistSteps}

\* Values of the s16 shadowScale.
FnScales == {-32768, -614, -1, 0, 1, 201, 614, 32767}

FnFrames == -NegFrames..MaxFrame

FnIn(fn, a, b, c, d, conv) ==
    [fn |-> fn, a |-> a, b |-> b, c |-> c, d |-> d, conv |-> conv]

FnInputs ==
    {FnIn("scale", s, d, 0, 0, "wrap") : s \in FnScales, d \in FnDists}
    \cup {FnIn("dim", a, d, 0, 0, "wrap") : a \in 0..255, d \in FnDists}
    \cup {FnIn("easeIn", a, fr, r[1], r[2], c) :
             a \in {0, 1, 100, 255}, fr \in FnFrames,
             r \in {<<5, 14>>, <<21, 33>>, <<0, 4>>}, c \in {"wrap", "sat"}}
    \cup {FnIn("easeOut", a, fr, r[1], r[2], "wrap") :
             a \in {0, 1, 100, 255}, fr \in FnFrames,
             r \in {<<0, 5>>, <<2, 6>>, <<3, 4>>}}
    \cup {FnIn("corner", i, hd, 0, 0, "wrap") : i \in 0..3, hd \in 0..1}

InitFn ==
    /\ gCurrShadow = ZeroShadow
    /\ gShadowFlags = {}
    /\ pc = "fn"
    /\ call = Base
    /\ ret = NoRet
    /\ fnIn \in FnInputs
    /\ fnOut = NoFnOut

Apply(fn, v) ==
    /\ pc = "fn"
    /\ fnIn.fn = fn
    /\ ~fnOut.done
    /\ fnOut' = [done |-> TRUE, v |-> v]
    /\ UNCHANGED <<gShadowFlags, pc, call, ret, fnIn>>

ScaleShadow ==
    /\ fnIn.fn = "scale"
    /\ \E r \in {scale_shadow_with_distance(QInt(fnIn.a), QInt(fnIn.b))} :
           Apply("scale", <<r.n, r.d>>)
    /\ UNCHANGED gCurrShadow

DimShadow ==
    /\ fnIn.fn = "dim"
    /\ Apply("dim", <<dim_shadow_with_distance(fnIn.a, QInt(fnIn.b))>>)
    /\ UNCHANGED gCurrShadow

EaseIn ==
    /\ fnIn.fn = "easeIn"
    /\ \E r \in {linearly_interpolate_solidity_positive(fnIn.a, fnIn.b, fnIn.c, fnIn.d,
                                                        fnIn.conv)} :
           /\ Apply("easeIn", <<r>>)
           /\ gCurrShadow' = [gCurrShadow EXCEPT !.solidity = r]

EaseOut ==
    /\ fnIn.fn = "easeOut"
    /\ \E r \in {linearly_interpolate_solidity_negative(fnIn.a, fnIn.b, fnIn.c, fnIn.d)} :
           /\ Apply("easeOut", <<r>>)
           /\ gCurrShadow' = [gCurrShadow EXCEPT !.solidity = r]

Corner ==
    /\ fnIn.fn = "corner"
    /\ Apply("corner", get_vertex_coords(fnIn.a) \o get_texture_coords(fnIn.a, fnIn.b = 1))
    /\ UNCHANGED gCurrShadow

NextFn == ScaleShadow \/ DimShadow \/ EaseIn \/ EaseOut \/ Corner

SpecFn == InitFn /\ [][NextFn]_vars

(***************************************************************************)
(* Properties of the attenuation, easing and corner functions (SpecFn).    *)
(***************************************************************************)
Applied(fn) == fnIn.fn = fn /\ fnOut.done

\* The scale the function returned, as a rational.
ScaleOut == Q(fnOut.v[1], fnOut.v[2])

\* The three values of scale_shadow_with_distance(s, d).
ScaleValue ==
    /\ fnIn.b <= 0 => ScaleOut = QInt(fnIn.a)
    /\ fnIn.b >= 600 => ScaleOut = Q(fnIn.a, 2)
    /\ (0 < fnIn.b /\ fnIn.b < 600) => ScaleOut = Q(fnIn.a * (1200 - fnIn.b), 1200)

\* C4, as stated: scale_shadow_with_distance(s, d) is s for d <= 0, s/2 for
\* d >= 600, s*(1 - d/1200) in between, and no larger at any greater d, for
\* every s16 s.
C4_ScaleNonIncreasing ==
    Applied("scale") =>
        /\ ScaleValue
        /\ \A d2 \in FnDists :
               d2 >= fnIn.b =>
                   QLe(scale_shadow_with_distance(QInt(fnIn.a), QInt(d2)), ScaleOut)

\* C4, amended: the three values are as stated for every s16 s; the result is
\* non-increasing in d for s >= 0 and non-decreasing in d for s <= 0 (its
\* magnitude never grows with d).
C4_ScaleMagnitudeNonIncreasing ==
    Applied("scale") =>
        /\ ScaleValue
        /\ \A d2 \in FnDists :
               d2 >= fnIn.b =>
                   LET r2 == scale_shadow_with_distance(QInt(fnIn.a), QInt(d2))
                   IN  /\ fnIn.a >= 0 => QLe(r2, ScaleOut)
                       /\ fnIn.a <= 0 => QLe(ScaleOut, r2)
                       /\ QLe(QAbs(r2), QAbs(ScaleOut))

\* A positive and a negative scale part way down the attenuation range.
C4_Witness ==
    /\ Applied("scale")
    /\ fnIn.a \in {614, -614}
    /\ fnIn.b = 300
    /\ ScaleOut = Q(fnIn.a * 3, 4)

\* C5: dim_shadow_with_distance(solidity, d) is solidity when solidity < 121;
\* otherwise solidity for d <= 0, 120 for d >= 600, within [120, solidity] in
\* between and no larger at any greater d; it always fits a u8.
C5_Dim ==
    Applied("dim") =>
        LET r == fnOut.v[1]
        IN  /\ fnIn.a < 121 => r = fnIn.a
            /\ fnIn.a >= 121 =>
                   /\ fnIn.b <= 0 => r = fnIn.a
                   /\ fnIn.b >= 600 => r = 120
                   /\ (0 < fnIn.b /\ fnIn.b < 600) => (120 <= r /\ r <= fnIn.a)
                   /\ \A d2 \in FnDists :
                          d2 >= fnIn.b =>
                              dim_shadow_with_distance(fnIn.a, QInt(d2)) <= r
            /\ r \in 0..255
            /\ ToU8(r) = r

C5_Witness ==
    /\ Applied("dim")
    /\ fnIn.a = 255
    /\ fnIn.b = 300
    /\ fnOut.v[1] = 187

\* C6: easeIn with start < end leaves the workspace solidity 0 for every frame
\* below start, final for every frame above end, 0 at start, and no smaller at
\* any later frame of [start, end].
C6_EaseIn ==
    (Applied("easeIn") /\ fnIn.c < fnIn.d) =>
        /\ fnIn.b < fnIn.c => gCurrShadow.solidity = 0
        /\ fnIn.b > fnIn.d => gCurrShadow.solidity = fnIn.a
        /\ fnIn.b = fnIn.c => gCurrShadow.solidity = 0
        /\ (fnIn.c <= fnIn.b /\ fnIn.b <= fnIn.d) =>
               \A f2 \in fnIn.b..fnIn.d :
                   gCurrShadow.solidity <=
                       linearly_interpolate_solidity_positive(fnIn.a, f2, fnIn.c, fnIn.d,
                                                              fnIn.conv)

\* What the function does hold to: the claim for the frames that are not
\* negative.
C6_EaseInFromZero ==
    (Applied("easeIn") /\ fnIn.c < fnIn.d /\ fnIn.b >= 0) => C6_EaseIn

\* A negative frame taken through the interpolation: 255 * (-1 - 5) / 9 = -170,
\* whose low byte is 86.
C6_NegativeFrame ==
    /\ Applied("easeIn")
    /\ fnIn.a = 255 /\ fnIn.b = -1 /\ fnIn.c = 5 /\ fnIn.d = 14
    /\ fnIn.conv = "wrap"
    /\ gCurrShadow.solidity = 86

\* C7: easeOut leaves the workspace solidity 0 for every frame outside
\* [start, end], below start included; with start = 0 it is initial at frame 0
\* and 0 at frame end.
C7_EaseOut ==
    Applied("easeOut") =>
        /\ (fnIn.b < fnIn.c \/ fnIn.b > fnIn.d) => gCurrShadow.solidity = 0
        /\ fnIn.c = 0 =>
               /\ fnIn.b = 0 => gCurrShadow.solidity = fnIn.a
               /\ fnIn.b = fnIn.d => gCurrShadow.solidity = 0
               /\ (fnIn.b < 0 \/ fnIn.b > fnIn.d) => gCurrShadow.solidity = 0

\* A frame below a start that is not 0, with a solidity to lose.
C7_Witness ==
    /\ Applied("easeOut")
    /\ fnIn.a = 255 /\ fnIn.b = 1 /\ fnIn.c = 2 /\ fnIn.d = 6
    /\ gCurrShadow.solidity = 0

Sign(x) == IF x < 0 THEN -1 ELSE IF x > 0 THEN 1 ELSE 0

Corners == {<<-1, -1>>, <<1, -1>>, <<-1, 1>>, <<1, 1>>}

\* C8: get_vertex_coords maps 0, 1, 2, 3 one to one onto (-1,-1), (1,-1),
\* (-1,1), (1,1) in this order, and each texture coordinate of
\* get_texture_coords has the sign of the corner's coordinate.
C8_Corners ==
    Applied("corner") =>
        /\ <<fnOut.v[1], fnOut.v[2]>> =
               <<<<-1, -1>>, <<1, -1>>, <<-1, 1>>, <<1, 1>>>>[fnIn.a + 1]
        /\ Sign(fnOut.v[3]) = fnOut.v[1]
        /\ Sign(fnOut.v[4]) = fnOut.v[2]
        /\ {get_vertex_coords(i) : i \in 0..3} = Corners
        /\ \A i, j \in 0..3 : get_vertex_coords(i) = get_vertex_coords(j) => i = j

C8_Witness ==
    /\ Applied("corner")
    /\ fnIn.a = 1
    /\ fnOut.v = <<1, -1, 16, -15>>

(***************************************************************************)
(* Properties of the builds.                                               *)
(***************************************************************************)
Built == pc = "done"

CircleTypes == {"SHADOW_CIRCLE_PLAYER", "SHADOW_CIRCLE"}

\* The floor and floor height the build of in resolves.
FloorOf(in) == ResolveFloor(ZeroShadow, in).s

\* The build of in works on a floor that exists.
RealFloor(in) == FloorOf(in).floor # NULL

\* The water test of the strategy of in sets the water-box flag.
WaterBoxTested(in) ==
    IF in.shadowType \in CircleTypes
    THEN "WATER_BOX" \in
             get_water_level_below_shadow(
                 [FloorOf(in) EXCEPT !.parentPos = <<in.xPos, in.yPos, in.zPos>>],
                 {}, in).f
    ELSE "WATER_BOX" \in
             get_shadow_height_solidity(FloorOf(in), {}, in, in.xPos, in.yPos, in.zPos,
                                        in.shadowSolidity).f

\* C1: for every shadow type, a build on a floor whose height is below
\* FLOOR_LOWER_LIMIT_MISC, with the water-box flag not set, returns NULL and
\* allocates nothing.
C1_BelowSentinel ==
    (Built /\ RealFloor(call) /\ FloorOf(call).floorHeight < FLOOR_LOWER_LIMIT_MISC
           /\ ~WaterBoxTested(call)) =>
        (ret.dl = "NULL" /\ ret.allocs = 0)

\* A square or a circle whose parent is under the water level: no water box.
C1_Witness ==
    /\ Built /\ RealFloor(call)
    /\ FloorOf(call).floorHeight < FLOOR_LOWER_LIMIT_MISC
    /\ call.waterLevel = 150 /\ call.yPos = 0
    /\ ~WaterBoxTested(call)
    /\ call.shadowType \in {"SHADOW_SQUARE_SCALABLE", "SHADOW_CIRCLE"}
    /\ ret.dl = "NULL" /\ ret.allocs = 0

NormalY(in) == NormalOf(Surfaces[FloorOf(in).floor]).y

\* C2, as stated: for every shadow type, a build on a floor whose normal has a
\* non-positive Y, with the water-box flag not set, returns NULL.
C2_EveryType ==
    (Built /\ RealFloor(call) /\ QLe(NormalY(call), QInt(0))
           /\ ~WaterBoxTested(call) /\ "WATER_BOX" \notin gShadowFlags) =>
        ret.dl = "NULL"

\* C2, amended: the circle strategies (PlayerCircle, Circle) return NULL and
\* allocate nothing on such a floor; the square and hardcoded-rectangle
\* strategies do not test the normal, and return a shadow there when the
\* floor is at or above FLOOR_LOWER_LIMIT_MISC and the allocations succeed.
C2_CircleTypes ==
    (Built /\ RealFloor(call) /\ QLe(NormalY(call), QInt(0))
           /\ ~WaterBoxTested(call)) =>
        /\ call.shadowType \in CircleTypes => (ret.dl = "NULL" /\ ret.allocs = 0)
        /\ (call.shadowType \notin CircleTypes
               /\ FloorOf(call).floorHeight >= FLOOR_LOWER_LIMIT_MISC
               /\ call.allocVerts /\ call.allocDl) => ret.dl = "DL"

\* A circle on the floor that faces down.
C2_Witness ==
    /\ Built /\ RealFloor(call)
    /\ NormalY(call) = QInt(-1)
    /\ ~WaterBoxTested(call)
    /\ call.shadowType = "SHADOW_CIRCLE"
    /\ ret.dl = "NULL"

\* C3: whatever the workspace and the flags held before, a build returns the
\* same result (presence, the four vertices and their alphas); here compared
\* with the build on the all-zero workspace.
C3_SameResult ==
    Built =>
        \E r \in {create_shadow_below_xyz(ZeroShadow, {}, call)} :
            /\ ret.dl = r.dl
            /\ ret.verts = r.verts

\* The other half of C3: the build leaves the same workspace and flags.
C3_SameWorkspace ==
    Built =>
        \E r \in {create_shadow_below_xyz(ZeroShadow, {}, call)} :
            /\ gCurrShadow = r.s
            /\ gShadowFlags = r.f

\* A Circle build with solidity 0 drawn with the 255 an earlier build left.
C3_StaleSolidity ==
    /\ Built
    /\ call.shadowType = "SHADOW_CIRCLE"
    /\ call.shadowSolidity = 0
    /\ ret.dl = "DL"
    /\ \A i \in 1..4 : ret.verts[i].alpha = 255

\* The Circle build of C9: a flat floor at or above the sentinel, no water,
\* a solidity that is not 0, allocations that succeed.
FlatCircle ==
    /\ Built /\ RealFloor(call)
    /\ call.shadowType = "SHADOW_CIRCLE"
    /\ NormalOf(Surfaces[FloorOf(call).floor]) =
           [x |-> QInt(0), y |-> QInt(1), z |-> QInt(0)]
    /\ FloorOf(call).floorHeight >= FLOOR_LOWER_LIMIT_MISC
    /\ call.waterLevel < FLOOR_LOWER_LIMIT_MISC
    /\ call.shadowSolidity # 0
    /\ call.allocVerts /\ call.allocDl

\* dy, and r = scale_shadow_with_distance(scale, dy) / 2.
Dy == call.yPos - FloorOf(call).floorHeight
Radius == QDiv(scale_shadow_with_distance(QInt(call.shadowScale), QInt(Dy)), QInt(2))

LedgeGrab ==
    /\ Built
    /\ call.shadowType = "SHADOW_CIRCLE_PLAYER"
    /\ call.animID = "MARIO_ANIM_FAST_LEDGE_GRAB"
    /\ call.animFrame \in 5..14
    /\ ret.dl = "DL"

\* solidity * (f - 5) / 9, as stored into the u8.
LedgeGrabSolidity == (call.shadowSolidity * (call.animFrame - 5)) \div 9

\* C10, as stated: every shadow of the fast ledge grab at frame f of [5, 14]
\* has the alpha solidity*(f-5)/9, whatever the position, floor and water.
C10_LedgeGrabAlpha ==
    LedgeGrab => \A i \in 1..4 : ret.verts[i].alpha = LedgeGrabSolidity

\* C10, amended: the alpha is solidity*(f-5)/9, at any distance from the
\* floor, when the build ends with neither the water-box nor the
\* water-surface flag set; over water (either flag) and on the corrected lava
\* (water-box flag) it is 200.
C10_LedgeGrabAlphaOffWater ==
    LedgeGrab =>
        \A i \in 1..4 :
            ret.verts[i].alpha =
                IF gShadowFlags \cap {"WATER_BOX", "WATER_SURFACE"} = {}
                THEN LedgeGrabSolidity ELSE 200

\* Frame 9 of the grab, 300 above a dry floor: 255 * 4 / 9 = 113.
C10_Witness ==
    /\ LedgeGrab
    /\ call.animFrame = 9 /\ call.shadowSolidity = 255 /\ call.yPos = 300
    /\ gShadowFlags \cap {"WATER_BOX", "WATER_SURFACE"} = {}
    /\ \A i \in 1..4 : ret.verts[i].alpha = 113

(***************************************************************************)
(* The adapter over a water surface.                                       *)
(***************************************************************************)
\* The overwriteSolidity argument the circle strategy of in passes to
\* init_shadow (lines 437-446 and 478).
OverwriteSolidity(in) ==
    IF in.shadowType = "SHADOW_CIRCLE_PLAYER"
          /\ correct_shadow_solidity_for_animations(ZeroShadow, in, in.shadowSolidity).code
                 = "SHADOW_SOILDITY_ALREADY_SET"
    THEN 0
    ELSE in.shadowSolidity

\* The build of in has called init_shadow, which found the water box set and
\* was given a water-surface floor by the water query: it returned success.
OverWaterSurface ==
    /\ Built /\ RealFloor(call)
    /\ call.shadowType \in CircleTypes
    /\ call.animID # "MARIO_ANIM_IDLE_ON_LEDGE"
    /\ WaterBoxTested(call)
    /\ call.waterFloor # NULL
    /\ call.waterFloor # FloorOf(call).floor

\* C11: when init_shadow returns success after finding the water box set and
\* a distinct water-surface floor, the workspace floor is that floor, the
\* water-box flag is clear, the water-surface flag is set and the workspace
\* solidity is 200, whatever overwriteSolidity is.
C11_WaterSurface ==
    OverWaterSurface =>
        /\ gCurrShadow.floor = call.waterFloor
        /\ "WATER_BOX" \notin gShadowFlags
        /\ "WATER_SURFACE" \in gShadowFlags
        /\ gCurrShadow.solidity = 200

\* What the code does there: the floor and the flags are as C11 says; the
\* solidity is 200 only when overwriteSolidity is 0, and otherwise the
\* overwriteSolidity dimmed by the distance to the water level.
C11_WaterSurfaceDimmed ==
    OverWaterSurface =>
        /\ gCurrShadow.floor = call.waterFloor
        /\ gCurrShadow.floorHeight = call.waterLevel
        /\ "WATER_BOX" \notin gShadowFlags
        /\ "WATER_SURFACE" \in gShadowFlags
        /\ gCurrShadow.solidity =
               IF OverwriteSolidity(call) = 0 THEN 200
               ELSE ToU8(dim_shadow_with_distance(OverwriteSolidity(call),
                                                  QInt(call.yPos - call.waterLevel)))

\* A Circle of solidity 255, 150 above the water surface: the workspace
\* solidity is 255 - 135 * 150 / 600 = 221.
C11_Overwritten ==
    /\ OverWaterSurface
    /\ call.shadowType = "SHADOW_CIRCLE"
    /\ call.shadowSolidity = 255 /\ call.yPos = 300 /\ call.waterLevel = 150
    /\ gCurrShadow.floor = call.waterFloor
    /\ "WATER_SURFACE" \in gShadowFlags
    /\ gCurrShadow.solidity = 221

(***************************************************************************)
(* The floor reference.  s.floor is read through at line 651 (the surface  *)
(* type, in the dispatcher), 426 and 400 (the type, in the player          *)
(* strategy), 172 (the normal, in init_shadow) and 305 (the height under   *)
(* each vertex).  Between the resolution and these reads it is assigned    *)
(* only the water-surface floor, after a test against NULL (line 178).     *)
(***************************************************************************)
\* C12: in every build, the workspace floor points to a real floor wherever
\* it is dereferenced, for every object kind, the player object included.
C12_FloorReal ==
    Built => ~ret.nullDeref

\* What the code ensures: the floor of every object other than the player
\* object is tested against NULL (line 640 or 646) before it is read through.
C12_ObjectFloorReal ==
    (Built /\ call.obj # "mario") =>
        /\ ~ret.nullDeref
        /\ ret.dl # "FAULT"
        /\ ret.dl = "DL" => gCurrShadow.floor # NULL

\* The player object with no floor in the player state: line 651 reads the
\* type through NULL; the build faults there, or goes on with what it read.
C12_NullFloor ==
    /\ Built
    /\ call.obj = "mario" /\ call.cachedFloor = NULL
    /\ ~ret.query
    /\ ret.nullDeref
    /\ ret.dl \in {"FAULT", "DL"}

(***************************************************************************)
(* The resolution of the floor.                                            *)
(***************************************************************************)
\* The object being drawn carries a floor from its movement code:
\* gMarioState->floor for the player object, oFloor for an object.  The
\* mirror image of the player is drawn from a bare graph node, which has no
\* oFloor to read (line 639).
HasCachedFloor(in) == in.obj # "mirror" /\ in.cachedFloor # NULL

\* No water and no corrected lava in the build: the strategies have left the
\* floor and the floor height of the workspace as they were resolved.
Dry == gShadowFlags \cap {"WATER_BOX", "WATER_SURFACE"} = {}

\* C13: find_floor is called in a build if and only if the object being drawn
\* has no cached floor; when it finds no floor the build returns NULL before
\* any strategy runs; when a cached floor exists the workspace floor and
\* floor height are the cached pair.
C13_QueryIffNoCache ==
    Built =>
        /\ ret.query <=> ~HasCachedFloor(call)
        /\ (ret.query /\ call.foundFloor = NULL) => (ret.dl = "NULL" /\ ret.allocs = 0)
        /\ (HasCachedFloor(call) /\ Dry) =>
               /\ gCurrShadow.floor = call.cachedFloor
               /\ gCurrShadow.floorHeight = call.cachedHeight

\* What the code does: find_floor is called for the mirror image and for an
\* object whose oFloor is NULL, and never for the player object; without a
\* call the workspace holds the cached pair, NULL included, and with a call
\* what find_floor answered.
C13_Resolved ==
    Built =>
        /\ ret.query <=> (call.obj = "mirror"
                             \/ (call.obj = "object" /\ call.cachedFloor = NULL))
        /\ (ret.query /\ call.foundFloor = NULL) =>
               (ret.dl = "NULL" /\ ret.allocs = 0 /\ gCurrShadow.floor = NULL)
        /\ (~ret.query /\ Dry) =>
               /\ gCurrShadow.floor = call.cachedFloor
               /\ gCurrShadow.floorHeight = call.cachedHeight
        /\ (ret.query /\ Dry) =>
               /\ gCurrShadow.floor = call.foundFloor
               /\ gCurrShadow.floorHeight = call.foundHeight

\* A build whose find_floor finds no floor returns at line 646: the flags are
\* not reset and nothing of the workspace but the floor pair is written.
C13_ReturnsBeforeStrategy ==
    [][(pc = "idle" /\ pc' = "done" /\ ret'.query /\ call'.foundFloor = NULL) =>
           /\ gShadowFlags' = gShadowFlags
           /\ gCurrShadow' = [gCurrShadow EXCEPT !.floor = NULL,
                                                 !.floorHeight = call'.foundHeight]]_vars

\* The player object with no floor in the player state: no cached floor, and
\* no call of find_floor.
C13_NoFloorNoQuery ==
    /\ Built
    /\ call.obj = "mario"
    /\ ~HasCachedFloor(call)
    /\ ~ret.query

(***************************************************************************)
(* The vertices of the circle strategies.                                  *)
(***************************************************************************)
\* A shadow returned by the PlayerCircle or the Circle strategy.
CircleShadow ==
    /\ Built
    /\ call.shadowType \in CircleTypes
    /\ ret.dl = "DL"

\* The vertex slots 0..3 are written, slot i with the texture corner of index i.
FourSlots ==
    /\ DOMAIN ret.verts = 1..4
    /\ \A i \in 0..3 :
           LET t == get_texture_coords(i, HD_SHADOWS)
           IN  ret.verts[i + 1].tc = <<t[1] * 32, t[2] * 32>>

\* C14: in every shadow of the PlayerCircle or Circle strategy the four
\* vertex slots 0..3 are written and every vertex has the workspace solidity
\* of the build as its alpha, whatever the flags.
C14_AlphaIsSolidity ==
    CircleShadow =>
        /\ FourSlots
        /\ \A i \in 1..4 : ret.verts[i].alpha = gCurrShadow.solidity

\* C14, amended: every vertex has the alpha 200 when the build ends with the
\* water-box flag set (water with no water-surface floor, corrected lava),
\* and the workspace solidity otherwise.
C14_AlphaOrWaterBox ==
    CircleShadow =>
        /\ FourSlots
        /\ \A i \in 1..4 :
               ret.verts[i].alpha =
                   IF "WATER_BOX" \in gShadowFlags THEN 200 ELSE gCurrShadow.solidity

\* The player's shadow on the lava of LEVEL_LLL area 1: a workspace solidity
\* of 255 and vertices of alpha 200.
C14_Witness ==
    /\ CircleShadow
    /\ call.shadowType = "SHADOW_CIRCLE_PLAYER"
    /\ call.level = "LEVEL_LLL" /\ call.area = 1
    /\ "WATER_BOX" \in gShadowFlags
    /\ gCurrShadow.solidity = 255
    /\ FourSlots
    /\ \A i \in 1..4 : ret.verts[i].alpha = 200

(***************************************************************************)
(* The hardcoded rectangles.                                               *)
(***************************************************************************)
\* A build dispatched to create_shadow_hardcoded_rectangle with an index
\* outside the table, on a floor that exists.
OutOfTable ==
    /\ Built /\ RealFloor(call)
    /\ call.shadowType \notin CircleTypes \cup SquareTypes
    /\ call.rectIdx \notin 0..(Len(rectangles) - 1)

\* The half width and half length made of what is read at rectangles[idx].
HalfRead(half) ==
    IF call.ubRect.scaleWithDistance
    THEN scale_shadow_with_distance(QInt(half), QInt(Dy))
    ELSE QInt(half)

\* C15: a shadowType other than PlayerCircle, Circle and the three squares
\* goes to create_shadow_hardcoded_rectangle, which reads rectangles[idx]
\* unchecked: with idx outside {0, 1} the build is not turned into a
\* no-shadow outcome.  It returns NULL only where it does for an index of
\* the table (floor below the sentinel, failed allocation), and otherwise a
\* square shadow whose extent is what was read outside the table.
C15_Unguarded ==
    OutOfTable =>
        /\ ret.dl = "NULL" <=>
               (FloorOf(call).floorHeight < FLOOR_LOWER_LIMIT_MISC
                   \/ ~call.allocVerts \/ ~call.allocDl)
        /\ ret.dl = "DL" =>
               /\ ret.shape = "SHADOW_SHAPE_SQUARE"
               /\ \A i \in 1..4 : ret.verts[i].alpha = call.shadowSolidity
               /\ call.faceYaw = 0 =>
                      ret.verts[4].pos = <<roundf(HalfRead(call.ubRect.halfWidth)), -Dy,
                                           roundf(HalfRead(call.ubRect.halfLength))>>

\* Index 2, where a 90 by 40 rectangle is read, on the flat floor: a shadow
\* of that extent.
C15_Witness ==
    /\ OutOfTable
    /\ call.rectIdx = 2
    /\ call.ubRect = [halfWidth |-> 90, halfLength |-> 40, scaleWithDistance |-> TRUE]
    /\ call.faceYaw = 0 /\ Dy = 0
    /\ ret.dl = "DL"
    /\ ret.verts[1].pos = <<-90, 0, -40>>
    /\ ret.verts[4].pos = <<90, 0, 40>>

====
